---------------------------- MODULE Spec2Model ----------------------------
(***************************************************************************)
(* mailer-backend: the template store (internal/email/template.go), the    *)
(* render pipeline with its per-render directive closures, the template    *)
(* save/delete endpoint and the bulk-send dispatch loop of                 *)
(* APIHandler.EmailHandler (internal/web/handlers.go).                     *)
(*                                                                         *)
(* A send request is served by two threads of control: the HTTP handler    *)
(* (hpc) and the goroutine it starts with `go func(recipients)` (pc).      *)
(* That goroutine walks the recipient list with one cursor; the steps of   *)
(* RenderTemplate it calls are modelled one by one because the template    *)
(* object it executes is shared with every other render of that name.      *)
(***************************************************************************)
EXTENDS Integers, Sequences, FiniteSets, TLC

(***************************** bounds and constants ************************)

\* Longest recipient list of a send request.
MaxRecipients == 2

\* Number of template save/delete requests the editor issues.
MaxEdits == 2

\* The retry loop written `i <= 10`.
RetryCeilingOffByOne == 10 + 1

\* for i := 0; i < 10; i++  (handlers.go:332)
RetryCeiling == 10

\* Send requests: request ids of POST /api/email.
Requests == {1, 2}

NoTmpl == 0

(***************************** inputs **************************************)

\* RecipientInfo{Name, Email, Custom}; recipient n carries custom["k"] = n,
\* but recipient 2, posted without "custom": its Custom is the nil map.
Recipient(n) ==
    [name |-> n, email |-> n,
     custom |-> [key \in (IF n = 2 THEN {} ELSE {"k"}) |-> n]]

\* The recipient lists of the requests: <<1>>, <<1, 2>>, ... and the empty one.
RecipientLists == {[n \in 1..len |-> Recipient(n)] : len \in 0..MaxRecipients}

\* The list of a request when two requests render concurrently: one
\* recipient each, different ones, so that a value of one request is
\* recognisable in the other's output.
RecipientListOf(rq) == << Recipient(10 * rq + 1) >>

\* A template source is a sequence of nodes: a data field, a directive call,
\* or a node whose evaluation fails (a field of a string, `{{.name.first}}`).
Node(op, arg, w, h) == [op |-> op, arg |-> arg, w |-> w, h |-> h]

Sources ==
    [ v1   |-> << Node("property", "k", "", ""), Node("image", "logo.png", "", ""),
                  Node("image", "gone.gif", "", "") >>,
      v2   |-> << Node("field", "name", "", ""),
                  Node("imageWithSize", "logo.png", "10", "20") >>,
      vbad |-> << Node("image", "logo.png", "", ""), Node("fail", "", "", "") >>,
      v3   |-> << Node("image", "logo.png", "", ""), Node("image", "logo.png", "", ""),
                  Node("image", "locked.png", "", "") >>,
      v4   |-> << Node("imageWithSize", "logo.png", "10", "20"),
                  Node("imageWithSize", "logo.png", "10", "30"),
                  Node("imageWithSize", "logo.png", "15", "20"),
                  Node("imageWithSize", "gone.gif", "10", "20") >>,
      v5   |-> << Node("property", "k", "", ""), Node("property", "zz", "", "") >> ]

SourceIds == DOMAIN Sources

\* The files of the template directory at start, in os.ReadDir order, and
\* the source each holds.  "ghost" is never loaded.
InitialNames == << "default", "promo", "faulty", "gallery", "sizes", "props" >>
InitialSource ==
    [default |-> "v1", promo |-> "v2", faulty |-> "vbad", gallery |-> "v3", sizes |-> "v4",
     props |-> "v5"]

\* Template names the requests and the editor use.
TemplateNames == {InitialNames[k] : k \in DOMAIN InitialNames}

\* Files of the image directory (os.Stat succeeds), those of them os.ReadFile
\* can read, and the extension filepath.Ext gives.
ImageFiles == {"logo.png", "locked.png"}
ReadableImages == {"logo.png"}
Ext(ref) ==
    IF ref \in {"logo.png", "locked.png"} THEN ".png"
    ELSE IF ref = "gone.gif" THEN ".gif" ELSE ""

(***************************** state ***************************************)

VARIABLES
    templates,   \* tm.templates: name -> template object id, NoTmpl if absent
    objs,        \* the heap of template objects: [src, funcs]
    files,       \* template directory: name -> source id, "none" if no file
    epc,         \* editor (TemplateHandler request in flight): position
    ereq,        \* the editor's request
    edits,       \* number of editor requests issued
    eresp,       \* what TemplateHandler / PreviewTemplateHandler wrote to w
    before,      \* the entry and the file of ereq.name when the request came
    dpc,         \* a second TemplateHandler request (DELETE) in flight: position
    dreq,        \* the name it deletes
    dresp,       \* what it wrote to w
    preq,        \* a request to a template or image endpoint: the name in its URL
    pres,        \* its status and the file operation the handler issued for it
    hpc,         \* EmailHandler position per request
    req,         \* reqData of the request
    response,    \* what the handler wrote to w
    issued,      \* session cookies the server has signed and set
    areq,        \* the request the mux is serving: route and cookie
    aresp,       \* what the middleware or an auth handler answered
    pc,          \* dispatch goroutine position
    cursor,      \* index of `rec` in `range recipients`
    i,           \* retry loop counter
    tmplPtr,     \* RenderTemplate local: tmpl
    node,        \* Execute: next node of the template
    buf,         \* RenderTemplate local: buf
    attachments, \* RenderTemplate local: attachments (captured by closures)
    slot,        \* a closure between reading and writing `attachments`
    own,         \* attachments of the directives this render evaluated
    body,        \* EmailHandler: body, attachments, htm
    atts,
    htm,
    rec          \* per request and recipient: what was observed

storeVars  == <<templates, objs, files>>
pathVars   == <<preq, pres>>
rivalVars  == <<dpc, dreq, dresp, pathVars>>
editVars   == <<epc, ereq, edits, eresp, before, rivalVars>>
authVars   == <<issued, areq, aresp>>
handlerVars == <<hpc, req, response, authVars>>
renderVars == <<tmplPtr, node, buf, attachments, slot, own>>
loopVars   == <<pc, cursor, i, body, atts, htm, rec>>
vars == <<storeVars, editVars, handlerVars, renderVars, loopVars>>

NoReq == [template |-> "", subject |-> "", recipient |-> <<>>]
NoRec == [renders |-> 0, calls |-> 0, oks |-> 0, sleeps |-> 0, log |-> {}]
NoClosure == <<0, 0>>
NoSlot == [owner |-> NoClosure, seen |-> <<>>]
NoBefore == [tmpl |-> NoTmpl, file |-> "none"]

\* A request without a cookie, and one whose cookie was not signed with
\* SESSION_KEY although it names an id_token.
NoCookie == [sig |-> "none", state |-> "", id_token |-> ""]
ForgedCookie == [sig |-> "bad", state |-> "", id_token |-> "tok"]
NoAnswer == [status |-> 0, location |-> "", set |-> NoCookie]

NoPathRequest == [endpoint |-> "", name |-> <<>>, content |-> ""]
NoResult == [status |-> 0, op |-> "none", path |-> <<>>]

\* State after main(): every file of the template directory is loaded.
InitBase ==
    /\ files = [n \in TemplateNames |-> InitialSource[n]]
    /\ objs = [k \in DOMAIN InitialNames |->
                 [src |-> InitialSource[InitialNames[k]], funcs |-> NoClosure]]
    /\ templates = [n \in TemplateNames |->
                      CHOOSE k \in DOMAIN InitialNames : InitialNames[k] = n]
    /\ epc = "idle"
    /\ ereq = [method |-> "", name |-> "", content |-> ""]
    /\ edits = 0
    /\ eresp = [status |-> 0, msg |-> ""]
    /\ before = NoBefore
    /\ dpc = "idle"
    /\ dreq = ""
    /\ dresp = [status |-> 0, msg |-> ""]
    /\ issued = {}
    /\ areq = [route |-> "", cookie |-> NoCookie, seq |-> 0, admitted |-> FALSE,
               state |-> "", code |-> "", idp |-> FALSE]
    /\ aresp = NoAnswer
    /\ hpc = [rq \in Requests |-> "idle"]
    /\ req = [rq \in Requests |-> NoReq]
    /\ response = [rq \in Requests |-> [status |-> 0, count |-> 0]]
    /\ pc = [rq \in Requests |-> "idle"]
    /\ cursor = [rq \in Requests |-> 0]
    /\ i = [rq \in Requests |-> 0]
    /\ tmplPtr = [rq \in Requests |-> NoTmpl]
    /\ node = [rq \in Requests |-> 0]
    /\ buf = [rq \in Requests |-> <<>>]
    /\ attachments = [rq \in Requests |-> <<>>]
    /\ slot = [rq \in Requests |-> NoSlot]
    /\ own = [rq \in Requests |-> <<>>]
    /\ body = [rq \in Requests |-> <<>>]
    /\ atts = [rq \in Requests |-> <<>>]
    /\ htm = [rq \in Requests |-> <<>>]
    /\ rec = [rq \in Requests |-> <<>>]
    /\ pres = NoResult

Init == InitBase /\ preq = NoPathRequest

(***************************** template store ******************************)

\* tm.templates[name] under the read lock: the object, or NoTmpl.
Lookup(name) == IF name \in DOMAIN templates THEN templates[name] ELSE NoTmpl

\* ListTemplates: the names of the map.
ListTemplates == {n \in DOMAIN templates : templates[n] # NoTmpl}

\* template.New(filename).Funcs(placeholders).ParseFiles(fullPath): the file
\* is read when LoadTemplate runs; a missing file or the source "broken"
\* (malformed template syntax) does not parse.
Parses(content) == content \in SourceIds

\* LoadTemplate re-parsing into the object the map already holds.
StoreTemplateInPlace(name, content) ==
    IF templates[name] # NoTmpl
    THEN /\ objs' = [objs EXCEPT ![templates[name]].src = content]
         /\ UNCHANGED templates
    ELSE /\ objs' = Append(objs, [src |-> content, funcs |-> NoClosure])
         /\ templates' = [templates EXCEPT ![name] = Len(objs) + 1]

\* tm.templates[name] = tmpl, under the write lock: a new object replaces
\* the entry; the object stored before is left as it is.
StoreTemplate(name, content) ==
    /\ objs' = Append(objs, [src |-> content, funcs |-> NoClosure])
    /\ templates' = [templates EXCEPT ![name] = Len(objs) + 1]

\* A delete that leaves the entry of the name in the map.
DeleteTemplateKeepsEntry(name) ==
    UNCHANGED <<templates, objs>>

\* delete(tm.templates, name), under the write lock.
DeleteTemplate(name) ==
    /\ templates' = [templates EXCEPT ![name] = NoTmpl]
    /\ UNCHANGED objs

(***************************** TemplateHandler *****************************)

\* GET /api/templates/{name}: os.ReadFile of the template file ("none": 404).
GetTemplate(name) == files[name]

Answer(status, msg) == [status |-> status, msg |-> msg]

\* The request is read and either answered 400 at once or taken to its first
\* file operation.
TemplateRequest(method, name, content, reject) ==
    /\ epc = "idle"
    /\ edits < MaxEdits
    /\ edits' = edits + 1
    /\ ereq' = [method |-> method, name |-> name, content |-> content]
    /\ before' = [tmpl |-> Lookup(name), file |-> files[name]]
    /\ eresp' = IF reject THEN Answer(400, "rejected") ELSE Answer(0, "")
    /\ epc' = IF reject THEN "idle"
              ELSE IF method = "POST" THEN "write" ELSE "remove"
    /\ UNCHANGED <<storeVars, rivalVars,
                   handlerVars, renderVars, loopVars>>

\* A POST that saves whatever content it is given.
TemplateHandlerSavesEmpty(method, name, content) ==
    TemplateRequest(method, name, content, method = "DELETE" /\ name = "default")

\* A DELETE that removes whatever name it is given.
TemplateHandlerDeletesAny(method, name, content) ==
    TemplateRequest(method, name, content, method = "POST" /\ content = "")

\* POST /api/templates/{name} up to the file write, DELETE up to os.Remove:
\* the checks of the request that answer 400 without touching anything.
TemplateHandler(method, name, content) ==
    TemplateRequest(method, name, content,
                    \/ method = "POST" /\ content = ""
                    \/ method = "DELETE" /\ name = "default")

\* os.WriteFile(filePath, content)
PostWriteFile ==
    /\ epc = "write"
    /\ files' = [files EXCEPT ![ereq.name] = ereq.content]
    /\ epc' = "parse"
    /\ UNCHANGED <<templates, objs, ereq, edits, eresp, before,
                   rivalVars,
                   handlerVars, renderVars, loopVars>>

\* os.WriteFile cannot open the file: 500, nothing is written.
PostWriteFileFail ==
    /\ epc = "write"
    /\ eresp' = Answer(500, "save")
    /\ epc' = "idle"
    /\ UNCHANGED <<storeVars, ereq, edits, before, rivalVars,
                   handlerVars, renderVars, loopVars>>

\* A LoadTemplate that drops the entry of a file it cannot parse.
PostParseDropsEntry ==
    /\ epc = "parse"
    /\ IF Parses(files[ereq.name])
       THEN /\ ereq' = [ereq EXCEPT !.content = files[ereq.name]]
            /\ epc' = "store"
            /\ UNCHANGED <<eresp, templates>>
       ELSE /\ epc' = "idle"
            /\ eresp' = Answer(500, "cache")
            /\ templates' = [templates EXCEPT ![ereq.name] = NoTmpl]
            /\ UNCHANGED ereq
    /\ UNCHANGED <<objs, files, edits, before, rivalVars,
                   handlerVars, renderVars, loopVars>>

\* LoadTemplate, first half: ParseFiles reads the file as it is now; on an
\* error LoadTemplate returns it before it takes the lock, and the handler
\* answers 500.
PostParse ==
    /\ epc = "parse"
    /\ IF Parses(files[ereq.name])
       THEN /\ ereq' = [ereq EXCEPT !.content = files[ereq.name]]
            /\ epc' = "store"
            /\ UNCHANGED eresp
       ELSE /\ epc' = "idle"
            /\ eresp' = Answer(500, "cache")
            /\ UNCHANGED ereq
    /\ UNCHANGED <<storeVars, edits, before, rivalVars,
                   handlerVars, renderVars, loopVars>>

\* LoadTemplate, second half: the map entry is replaced under the lock.
PostStore ==
    /\ epc = "store"
    /\ StoreTemplate(ereq.name, ereq.content)
    /\ epc' = "idle"
    /\ eresp' = Answer(200, "updated")
    /\ UNCHANGED <<files, ereq, edits, before, rivalVars,
                   handlerVars, renderVars, loopVars>>

\* os.Remove(filePath): an error (no such file) answers 500 and returns.
DeleteRemoveFile ==
    /\ epc = "remove"
    /\ IF files[ereq.name] = "none"
       THEN /\ epc' = "idle"
            /\ eresp' = Answer(500, "remove")
            /\ UNCHANGED files
       ELSE /\ files' = [files EXCEPT ![ereq.name] = "none"]
            /\ epc' = "unload"
            /\ UNCHANGED eresp
    /\ UNCHANGED <<templates, objs, ereq, edits, before,
                   rivalVars,
                   handlerVars, renderVars, loopVars>>

\* A DELETE that drops the entry of the store although os.Remove failed.
DeleteRemoveFileFailUnloads ==
    /\ epc = "remove"
    /\ files[ereq.name] # "none"
    /\ DeleteTemplate(ereq.name)
    /\ epc' = "idle"
    /\ eresp' = Answer(500, "remove")
    /\ UNCHANGED <<files, ereq, edits, before, rivalVars,
                   handlerVars, renderVars, loopVars>>

\* Lines 153-157: os.Remove fails on a file that exists (it cannot be
\* unlinked): 500, and the handler returns before DeleteTemplate.
DeleteRemoveFileFail ==
    /\ epc = "remove"
    /\ files[ereq.name] # "none"
    /\ epc' = "idle"
    /\ eresp' = Answer(500, "remove")
    /\ UNCHANGED <<storeVars, ereq, edits, before, rivalVars,
                   handlerVars, renderVars, loopVars>>

\* h.TemplateManager.DeleteTemplate(tmplName)
DeleteUnload ==
    /\ epc = "unload"
    /\ DeleteTemplate(ereq.name)
    /\ epc' = "idle"
    /\ eresp' = Answer(200, "deleted")
    /\ UNCHANGED <<files, ereq, edits, before, rivalVars,
                   handlerVars, renderVars, loopVars>>

\* tpl.Execute of the preview: its image directives only format a URL, so
\* only a node that fails on the data makes it fail.
PreviewFails(content) == \E k \in DOMAIN Sources[content] : Sources[content][k].op = "fail"

\* The status PreviewTemplateHandler writes: the posted content, or the
\* stored file when the content is empty, parsed with the preview's own
\* directives and executed on the sample data.
PreviewStatus(name, content) ==
    IF content # ""
    THEN (IF ~Parses(content) THEN 400
          ELSE IF PreviewFails(content) THEN 500 ELSE 200)
    ELSE (IF files[name] = "none" THEN 404
          ELSE IF ~Parses(files[name]) \/ PreviewFails(files[name]) THEN 500
          ELSE 200)

\* The outcomes of the CSS inliner on the rendered HTML:
\* premailer.NewPremailerFromString fails, Transform fails, or both succeed.
InlineOutcomes == {"premailerFail", "transformFail", "inlined"}

\* What the body of the answer holds.  Lines 252-264: WriteHeader(200) comes
\* before the inliner runs, so the http.Error calls after it only write
\* their message: the status of the response is already 200.
PreviewBody(name, content, inline) ==
    IF content # ""
    THEN (IF ~Parses(content) THEN "parseFail"
          ELSE IF PreviewFails(content) THEN "executeFail" ELSE inline)
    ELSE (IF files[name] = "none" THEN "notFound"
          ELSE IF ~Parses(files[name]) THEN "parseFail"
          ELSE IF PreviewFails(files[name]) THEN "executeFail"
          ELSE inline)

\* A preview that saves the posted content as the template's file.
PreviewTemplateHandlerSaves(name, content, inline) ==
    /\ epc = "idle"
    /\ ereq' = [method |-> "PREVIEW", name |-> name, content |-> content]
    /\ before' = [tmpl |-> Lookup(name), file |-> files[name]]
    /\ eresp' = Answer(PreviewStatus(name, content),
                       PreviewBody(name, content, inline))
    /\ files' = IF content # "" THEN [files EXCEPT ![name] = content] ELSE files
    /\ UNCHANGED <<templates, objs, epc, edits, rivalVars,
                   handlerVars, renderVars, loopVars>>

\* POST /api/templates/preview/{name}
PreviewTemplateHandler(name, content, inline) ==
    /\ epc = "idle"
    /\ ereq' = [method |-> "PREVIEW", name |-> name, content |-> content]
    /\ before' = [tmpl |-> Lookup(name), file |-> files[name]]
    /\ eresp' = Answer(PreviewStatus(name, content),
                       PreviewBody(name, content, inline))
    /\ UNCHANGED <<storeVars, epc, edits, rivalVars,
                   handlerVars, renderVars, loopVars>>

\* A second request served while the first is in flight: net/http runs each
\* request in its own goroutine.  DELETE /api/templates/{name}, lines 148-152.
RivalDelete(name) ==
    /\ dpc = "idle"
    /\ edits < MaxEdits
    /\ edits' = edits + 1
    /\ dreq' = name
    /\ dresp' = IF name = "default" THEN Answer(400, "rejected") ELSE Answer(0, "")
    /\ dpc' = IF name = "default" THEN "idle" ELSE "remove"
    /\ UNCHANGED <<storeVars, epc, ereq, eresp, before, pathVars,
                   handlerVars, renderVars, loopVars>>

\* Lines 153-157: os.Remove(filePath) of the second request.
RivalRemoveFile ==
    /\ dpc = "remove"
    /\ IF files[dreq] = "none"
       THEN /\ dpc' = "idle"
            /\ dresp' = Answer(500, "remove")
            /\ UNCHANGED files
       ELSE /\ files' = [files EXCEPT ![dreq] = "none"]
            /\ dpc' = "unload"
            /\ UNCHANGED dresp
    /\ UNCHANGED <<templates, objs, epc, ereq, edits, eresp, before, dreq, pathVars,
                   handlerVars, renderVars, loopVars>>

\* Lines 158-162: h.TemplateManager.DeleteTemplate(tmplName) of the second
\* request, and its answer.
RivalUnload ==
    /\ dpc = "unload"
    /\ DeleteTemplate(dreq)
    /\ dpc' = "idle"
    /\ dresp' = Answer(200, "deleted")
    /\ UNCHANGED <<files, epc, ereq, edits, eresp, before, dreq, pathVars,
                   handlerVars, renderVars, loopVars>>

(***************************** RenderTemplate ******************************)

\* data := map[string]interface{}{"name", "email", "year", "custom"}
Data(o) == req[o[1]].recipient[o[2]]

\* hashString: the hex SHA3-512 digest, injective on the references used.
hashString(str) == <<"sha3-512", str>>

\* fmt.Sprintf("%s%s", hashString(imageSrc), ext)
ImageName(ref) == [hash |-> hashString(ref), size |-> <<>>, ext |-> Ext(ref)]

\* fmt.Sprintf("%s-%s%s", hashString(imageSrc), width, ext)
ImageNameWithSize(ref, width) ==
    [hash |-> hashString(ref), size |-> <<width>>, ext |-> Ext(ref)]

ContentId(n) ==
    IF n.op = "image" THEN ImageName(n.arg) ELSE ImageNameWithSize(n.arg, n.w)

\* fmt.Sprintf("<%s>", imageSrc): the Content-ID header of a name, which a
\* cid: reference to that name resolves to.
ContentIdHeader(name) == << "<", name, ">" >>

\* email.Attachment{Filename, Content, ContentType, Header["Content-ID"]}
Attachment(n) ==
    [filename |-> ContentId(n), content |-> n.arg,
     header |-> ContentIdHeader(ContentId(n))]

Frag(tag, val, cid, ref, w, h) ==
    [tag |-> tag, val |-> val, cid |-> cid, ref |-> ref, w |-> w, h |-> h]

\* What a directive call returns into the output.
ImageFrag(n) ==
    IF n.arg \notin ImageFiles
    THEN Frag("notfound", <<>>, <<>>, n.arg, "", "")
    ELSE IF n.arg \notin ReadableImages
    THEN Frag("unreadable", <<>>, <<>>, n.arg, "", "")
    ELSE IF n.op = "image"
         THEN Frag("img", <<>>, <<ContentId(n)>>, "", "", "")
         ELSE Frag("imgsize", <<>>, <<ContentId(n)>>, "", n.w, n.h)

\* The property closure of render o: custom[key] of the data it closed over.
PropertyOf(o, key) ==
    IF key \in DOMAIN Data(o).custom THEN <<Data(o).custom[key]>> ELSE <<>>

IsImageOp(n) == n.op \in {"image", "imageWithSize"}

\* filepath.Ext(imageSrc)[1:] panics on an empty extension; text/template
\* turns the panic of a called function into an execution error.
NodeFails(n) ==
    \/ n.op = "fail"
    \/ IsImageOp(n) /\ n.arg \in ReadableImages /\ Ext(n.arg) = ""

\* The template the render executes: the object read under the read lock.
TemplateOf(rq) == objs[tmplPtr[rq]]

CurrentNode(rq) == Sources[TemplateOf(rq).src][node[rq]]

\* The `attachments` variable closure o appends to is the one a running
\* RenderTemplate call returns: after the return the appends are lost.
Live(o) ==
    /\ o[1] \in Requests
    /\ cursor[o[1]] = o[2]
    /\ pc[o[1]] \in {"exec", "append"}

\* `continue` and the end of the loop body: the next recipient, or the end of
\* the goroutine.  The locals of the finished iteration are dead.
NextRecipient(rq, j) ==
    /\ cursor' = [cursor EXCEPT ![rq] = j + 1]
    /\ pc' = [pc EXCEPT ![rq] =
                IF j < Len(req[rq].recipient) THEN "render" ELSE "end"]
    /\ i' = [i EXCEPT ![rq] = 0]
    /\ tmplPtr' = [tmplPtr EXCEPT ![rq] = NoTmpl]
    /\ node' = [node EXCEPT ![rq] = 0]
    /\ buf' = [buf EXCEPT ![rq] = <<>>]
    /\ attachments' = [attachments EXCEPT ![rq] = <<>>]
    /\ slot' = [slot EXCEPT ![rq] = NoSlot]
    /\ own' = [own EXCEPT ![rq] = <<>>]
    /\ body' = [body EXCEPT ![rq] = <<>>]
    /\ atts' = [atts EXCEPT ![rq] = <<>>]
    /\ htm' = [htm EXCEPT ![rq] = <<>>]

Logged(rq, j, what) ==
    [rec EXCEPT ![rq][j].log = @ \cup {what}]

At(rq, j, where) == pc[rq] = where /\ cursor[rq] = j

\* RenderTemplate, lines 54-59: the template is absent:
\* return "", nil, fmt.Errorf("template %s not found", name).
RenderNotFound(rq, j) ==
    /\ At(rq, j, "render")
    /\ Lookup(req[rq].template) = NoTmpl
    /\ rec' = [rec EXCEPT ![rq][j].renders = @ + 1]
    /\ body' = [body EXCEPT ![rq] = <<>>]
    /\ atts' = [atts EXCEPT ![rq] = <<>>]
    /\ pc' = [pc EXCEPT ![rq] = "failed"]
    /\ UNCHANGED <<storeVars, editVars, handlerVars, renderVars, cursor, i, htm>>

\* RenderTemplate, lines 54-123: tmpl is read under the read lock, then
\* tmpl.Funcs binds this call's closures ON THE SHARED OBJECT (Funcs changes
\* its receiver and returns it).  Reading the map commutes with every step
\* of another goroutine but a store or delete, and binding does not read the
\* map, so the two are one step.
RenderBind(rq, j) ==
    /\ At(rq, j, "render")
    /\ Lookup(req[rq].template) # NoTmpl
    /\ tmplPtr' = [tmplPtr EXCEPT ![rq] = Lookup(req[rq].template)]
    /\ objs' = [objs EXCEPT ![Lookup(req[rq].template)].funcs = <<rq, j>>]
    /\ node' = [node EXCEPT ![rq] = 1]
    /\ buf' = [buf EXCEPT ![rq] = <<>>]
    /\ attachments' = [attachments EXCEPT ![rq] = <<>>]
    /\ own' = [own EXCEPT ![rq] = <<>>]
    /\ rec' = [rec EXCEPT ![rq][j].renders = @ + 1]
    /\ pc' = [pc EXCEPT ![rq] = "exec"]
    /\ UNCHANGED <<templates, files, editVars, handlerVars, slot, cursor, i,
                   body, atts, htm>>

Executing(rq, j) ==
    /\ At(rq, j, "exec")
    /\ node[rq] <= Len(Sources[TemplateOf(rq).src])

\* Execute: {{.name}}
ExecField(rq, j) ==
    /\ Executing(rq, j)
    /\ CurrentNode(rq).op = "field"
    /\ buf' = [buf EXCEPT ![rq] =
                 Append(@, Frag("field", <<Data(<<rq, j>>).name>>, <<>>, "", "", ""))]
    /\ node' = [node EXCEPT ![rq] = @ + 1]
    /\ UNCHANGED <<storeVars, editVars, handlerVars, loopVars, tmplPtr,
                   attachments, slot, own>>

\* Execute: {{property "k"}} calls the closure the template holds NOW.
ExecProperty(rq, j) ==
    /\ Executing(rq, j)
    /\ CurrentNode(rq).op = "property"
    /\ buf' = [buf EXCEPT ![rq] =
                 Append(@, Frag("property",
                                PropertyOf(TemplateOf(rq).funcs, CurrentNode(rq).arg),
                                <<>>, "", "", ""))]
    /\ node' = [node EXCEPT ![rq] = @ + 1]
    /\ UNCHANGED <<storeVars, editVars, handlerVars, loopVars, tmplPtr,
                   attachments, slot, own>>

\* Execute: {{image ref}} / {{imageWithSize ref w h}} on an image os.Stat
\* does not find or os.ReadFile cannot read: the closure returns the
\* placeholder text and appends nothing.
ExecImageMissing(rq, j) ==
    /\ Executing(rq, j)
    /\ IsImageOp(CurrentNode(rq))
    /\ CurrentNode(rq).arg \notin ReadableImages
    /\ buf' = [buf EXCEPT ![rq] = Append(@, ImageFrag(CurrentNode(rq)))]
    /\ node' = [node EXCEPT ![rq] = @ + 1]
    /\ UNCHANGED <<storeVars, editVars, handlerVars, loopVars, tmplPtr,
                   attachments, slot, own>>

\* Execute: an image directive on an existing image, first half: the closure
\* the template holds now reads the file and the `attachments` it closed
\* over (append reads the slice before it writes it).
ExecImageRead(rq, j) ==
    /\ Executing(rq, j)
    /\ IsImageOp(CurrentNode(rq))
    /\ CurrentNode(rq).arg \in ReadableImages
    /\ ~NodeFails(CurrentNode(rq))
    /\ slot' = [slot EXCEPT ![rq] =
                  [owner |-> TemplateOf(rq).funcs,
                   seen  |-> IF Live(TemplateOf(rq).funcs)
                             THEN attachments[TemplateOf(rq).funcs[1]]
                             ELSE <<>>]]
    /\ pc' = [pc EXCEPT ![rq] = "append"]
    /\ UNCHANGED <<storeVars, editVars, handlerVars, tmplPtr, node, buf,
                   attachments, own, cursor, i, body, atts, htm, rec>>

\* A content identifier drawn anew for every request.
PerRender(cid, rq) == [cid EXCEPT !.size = << IF rq = 1 THEN "a" ELSE "b" >>]

ExecImageAppendPerRender(rq, j) ==
    /\ At(rq, j, "append")
    /\ attachments' =
         IF Live(slot[rq].owner)
         THEN [attachments EXCEPT ![slot[rq].owner[1]] =
                 Append(slot[rq].seen,
                        [Attachment(CurrentNode(rq)) EXCEPT
                           !.filename = PerRender(@, rq),
                           !.header = ContentIdHeader(PerRender(ContentId(CurrentNode(rq)), rq))])]
         ELSE attachments
    /\ own' = [own EXCEPT ![rq] = Append(@, Attachment(CurrentNode(rq)))]
    /\ buf' = [buf EXCEPT ![rq] =
                 Append(@, [ImageFrag(CurrentNode(rq)) EXCEPT
                              !.cid = << PerRender(ContentId(CurrentNode(rq)), rq) >>])]
    /\ node' = [node EXCEPT ![rq] = @ + 1]
    /\ slot' = [slot EXCEPT ![rq] = NoSlot]
    /\ pc' = [pc EXCEPT ![rq] = "exec"]
    /\ UNCHANGED <<storeVars, editVars, handlerVars, tmplPtr, cursor, i,
                   body, atts, htm, rec>>

\* Second half: attachments = append(attachments, ...) of the closure's
\* owner, and the <img src="cid:..."> markup into the caller's output.
ExecImageAppend(rq, j) ==
    /\ At(rq, j, "append")
    /\ attachments' =
         IF Live(slot[rq].owner)
         THEN [attachments EXCEPT ![slot[rq].owner[1]] =
                 Append(slot[rq].seen, Attachment(CurrentNode(rq)))]
         ELSE attachments
    /\ own' = [own EXCEPT ![rq] = Append(@, Attachment(CurrentNode(rq)))]
    /\ buf' = [buf EXCEPT ![rq] = Append(@, ImageFrag(CurrentNode(rq)))]
    /\ node' = [node EXCEPT ![rq] = @ + 1]
    /\ slot' = [slot EXCEPT ![rq] = NoSlot]
    /\ pc' = [pc EXCEPT ![rq] = "exec"]
    /\ UNCHANGED <<storeVars, editVars, handlerVars, tmplPtr, cursor, i,
                   body, atts, htm, rec>>

\* The caller logging the render error without `continue`.
ExecFailFallThrough(rq, j) ==
    /\ Executing(rq, j)
    /\ NodeFails(CurrentNode(rq))
    /\ rec' = Logged(rq, j, "renderFail")
    /\ body' = [body EXCEPT ![rq] = <<>>]
    /\ atts' = [atts EXCEPT ![rq] = <<>>]
    /\ pc' = [pc EXCEPT ![rq] = "premailer"]
    /\ UNCHANGED <<storeVars, editVars, handlerVars, renderVars, cursor, i, htm>>

\* An Execute error returned with what the render had produced so far.
ExecFailPartial(rq, j) ==
    /\ Executing(rq, j)
    /\ NodeFails(CurrentNode(rq))
    /\ body' = [body EXCEPT ![rq] = buf[rq]]
    /\ atts' = [atts EXCEPT ![rq] = attachments[rq]]
    /\ pc' = [pc EXCEPT ![rq] = "failed"]
    /\ UNCHANGED <<storeVars, editVars, handlerVars, renderVars, cursor, i,
                   htm, rec>>

\* Lines 125-127: Execute returns an error: return "", nil, err.  What was
\* written to buf and appended to attachments stays behind in the locals.
ExecFail(rq, j) ==
    /\ Executing(rq, j)
    /\ NodeFails(CurrentNode(rq))
    /\ body' = [body EXCEPT ![rq] = <<>>]
    /\ atts' = [atts EXCEPT ![rq] = <<>>]
    /\ pc' = [pc EXCEPT ![rq] = "failed"]
    /\ UNCHANGED <<storeVars, editVars, handlerVars, renderVars, cursor, i,
                   htm, rec>>

\* EmailHandler, lines 318-322: RenderTemplate returned an error: it is
\* logged and the loop continues with the next recipient.
RenderFailed(rq, j) ==
    /\ At(rq, j, "failed")
    /\ rec' = Logged(rq, j, "renderFail")
    /\ NextRecipient(rq, j)
    /\ UNCHANGED <<storeVars, editVars, handlerVars>>

\* return buf.String(), attachments, nil
RenderReturn(rq, j) ==
    /\ At(rq, j, "exec")
    /\ node[rq] > Len(Sources[TemplateOf(rq).src])
    /\ body' = [body EXCEPT ![rq] = buf[rq]]
    /\ atts' = [atts EXCEPT ![rq] = attachments[rq]]
    /\ pc' = [pc EXCEPT ![rq] = "premailer"]
    /\ UNCHANGED <<storeVars, editVars, handlerVars, renderVars, cursor, i,
                   htm, rec>>

(***************************** EmailHandler ********************************)

\* Lines 301-304: the body is not JSON: 400, reqData stays the zero value.
EmailHandlerBadJSON(rq) ==
    /\ hpc[rq] = "idle"
    /\ response' = [response EXCEPT ![rq] = [status |-> 400, count |-> 0]]
    /\ hpc' = [hpc EXCEPT ![rq] = "done"]
    /\ UNCHANGED <<storeVars, editVars, authVars, req, renderVars, loopVars>>

\* Lines 301-309: reqData is decoded; a request with an empty template,
\* subject or recipient list is answered 400 and nothing is started.
EmailHandlerReject(rq, t, subj, recips) ==
    /\ hpc[rq] = "idle"
    /\ t = "" \/ subj = "" \/ Len(recips) = 0
    /\ req' = [req EXCEPT ![rq] =
                 [template |-> t, subject |-> subj, recipient |-> recips]]
    /\ response' = [response EXCEPT ![rq] = [status |-> 400, count |-> 0]]
    /\ hpc' = [hpc EXCEPT ![rq] = "done"]
    /\ UNCHANGED <<storeVars, editVars, authVars, renderVars, loopVars>>

\* A validation that forgets the subject.
EmailHandlerAcceptAnySubject(rq, t, subj, recips) ==
    /\ hpc[rq] = "idle"
    /\ ~(t = "" \/ Len(recips) = 0)
    /\ req' = [req EXCEPT ![rq] =
                 [template |-> t, subject |-> subj, recipient |-> recips]]
    /\ rec' = [rec EXCEPT ![rq] = [j \in 1..Len(recips) |-> NoRec]]
    /\ cursor' = [cursor EXCEPT ![rq] = 1]
    /\ pc' = [pc EXCEPT ![rq] = "render"]
    /\ hpc' = [hpc EXCEPT ![rq] = "respond"]
    /\ UNCHANGED <<storeVars, editVars, authVars, response, renderVars, i, body, atts, htm>>

\* Line 310: go func(recipients) { ... }(reqData.Recipient).  The goroutine
\* exists from here on; the handler goes on to write its response.
EmailHandlerAccept(rq, t, subj, recips) ==
    /\ hpc[rq] = "idle"
    /\ ~(t = "" \/ subj = "" \/ Len(recips) = 0)
    /\ req' = [req EXCEPT ![rq] =
                 [template |-> t, subject |-> subj, recipient |-> recips]]
    /\ rec' = [rec EXCEPT ![rq] = [j \in 1..Len(recips) |-> NoRec]]
    /\ cursor' = [cursor EXCEPT ![rq] = 1]
    /\ pc' = [pc EXCEPT ![rq] = "render"]
    /\ hpc' = [hpc EXCEPT ![rq] = "respond"]
    /\ UNCHANGED <<storeVars, editVars, authVars, response, renderVars, i, body, atts, htm>>

\* A handler that answers once the goroutine has ended, with what was sent.
EmailHandlerRespondAfterDispatch(rq) ==
    /\ hpc[rq] = "respond"
    /\ pc[rq] = "end"
    /\ response' = [response EXCEPT ![rq] =
                      [status |-> 200,
                       count |-> Cardinality({j \in DOMAIN rec[rq] : rec[rq][j].oks > 0})]]
    /\ hpc' = [hpc EXCEPT ![rq] = "done"]
    /\ UNCHANGED <<storeVars, editVars, authVars, req, renderVars, loopVars>>

\* Lines 344-348: the response carries len(reqData.Recipient).
EmailHandlerRespond(rq) ==
    /\ hpc[rq] = "respond"
    /\ response' = [response EXCEPT ![rq] =
                      [status |-> 200, count |-> Len(req[rq].recipient)]]
    /\ hpc' = [hpc EXCEPT ![rq] = "done"]
    /\ UNCHANGED <<storeVars, editVars, authVars, req, renderVars, loopVars>>

(***************************** dispatch loop *******************************)

\* premailer.Transform on success: the HTML with its style rules inlined.
Inlined(html) == [inlined |-> TRUE, html |-> html]
\* The empty string Transform returns beside an error.
EmptyHtml == [inlined |-> FALSE, html |-> <<>>]

\* Lines 323-327: premailer.NewPremailerFromString fails: log, continue.
PremailerFail(rq, j) ==
    /\ At(rq, j, "premailer")
    /\ rec' = Logged(rq, j, "premailerFail")
    /\ NextRecipient(rq, j)
    /\ UNCHANGED <<storeVars, editVars, handlerVars>>

PremailerOk(rq, j) ==
    /\ At(rq, j, "premailer")
    /\ pc' = [pc EXCEPT ![rq] = "transform"]
    /\ UNCHANGED <<storeVars, editVars, handlerVars, renderVars, cursor, i,
                   body, atts, htm, rec>>

\* Lines 328-332: premail.Transform() succeeds; the retry loop starts, i := 0.
TransformOk(rq, j) ==
    /\ At(rq, j, "transform")
    /\ htm' = [htm EXCEPT ![rq] = Inlined(body[rq])]
    /\ i' = [i EXCEPT ![rq] = 0]
    /\ pc' = [pc EXCEPT ![rq] = "send"]
    /\ UNCHANGED <<storeVars, editVars, handlerVars, renderVars, cursor,
                   body, atts, rec>>

\* Lines 328-332: premail.Transform() fails: the error is logged and the
\* code goes on to the retry loop with the htm Transform returned.
TransformFail(rq, j) ==
    /\ At(rq, j, "transform")
    /\ htm' = [htm EXCEPT ![rq] = EmptyHtml]
    /\ rec' = Logged(rq, j, "transformFail")
    /\ i' = [i EXCEPT ![rq] = 0]
    /\ pc' = [pc EXCEPT ![rq] = "send"]
    /\ UNCHANGED <<storeVars, editVars, handlerVars, renderVars, cursor,
                   body, atts>>

\* SendEmail returns nil and the `break` is missing: i++ and the next round.
SendEmailOkNoBreak(rq, j) ==
    /\ At(rq, j, "send")
    /\ rec' = [rec EXCEPT ![rq][j].calls = @ + 1, ![rq][j].oks = @ + 1]
    /\ i' = [i EXCEPT ![rq] = @ + 1]
    /\ pc' = [pc EXCEPT ![rq] =
                IF i[rq] + 1 < RetryCeiling THEN "send" ELSE "log"]
    /\ UNCHANGED <<storeVars, editVars, handlerVars, renderVars, cursor,
                   body, atts, htm>>

\* Lines 333, 338: SendEmail returns nil: break.
SendEmailOk(rq, j) ==
    /\ At(rq, j, "send")
    /\ rec' = [rec EXCEPT ![rq][j].calls = @ + 1, ![rq][j].oks = @ + 1]
    /\ pc' = [pc EXCEPT ![rq] = "log"]
    /\ UNCHANGED <<storeVars, editVars, handlerVars, renderVars, cursor, i,
                   body, atts, htm>>

\* Lines 333-334: SendEmail returns an error, which is logged.
SendEmailFail(rq, j) ==
    /\ At(rq, j, "send")
    /\ rec' = [rec EXCEPT ![rq][j].calls = @ + 1,
                          ![rq][j].log = @ \cup {"sendFail"}]
    /\ pc' = [pc EXCEPT ![rq] = "sleep"]
    /\ UNCHANGED <<storeVars, editVars, handlerVars, renderVars, cursor, i,
                   body, atts, htm>>

\* A loop that returns from the goroutine once the retries are used up.
BackoffSleepGiveUp(rq, j) ==
    /\ At(rq, j, "sleep")
    /\ rec' = [rec EXCEPT ![rq][j].sleeps = @ + 1]
    /\ i' = [i EXCEPT ![rq] = @ + 1]
    /\ pc' = [pc EXCEPT ![rq] =
                IF i[rq] + 1 < RetryCeiling THEN "send" ELSE "end"]
    /\ cursor' = [cursor EXCEPT ![rq] =
                IF i[rq] + 1 < RetryCeiling THEN @ ELSE Len(req[rq].recipient) + 1]
    /\ UNCHANGED <<storeVars, editVars, handlerVars, renderVars,
                   body, atts, htm>>

\* A loop whose counter is not advanced by a failed attempt.
BackoffSleepNoCount(rq, j) ==
    /\ At(rq, j, "sleep")
    /\ rec' = [rec EXCEPT ![rq][j].sleeps = @ + 1]
    /\ pc' = [pc EXCEPT ![rq] = "send"]
    /\ UNCHANGED <<storeVars, editVars, handlerVars, renderVars, cursor, i,
                   body, atts, htm>>

\* Lines 335-336 and the loop header: time.Sleep(10 * time.Second);
\* continue; i++; i < 10.
BackoffSleep(rq, j) ==
    /\ At(rq, j, "sleep")
    /\ rec' = [rec EXCEPT ![rq][j].sleeps = @ + 1]
    /\ i' = [i EXCEPT ![rq] = @ + 1]
    /\ pc' = [pc EXCEPT ![rq] =
                IF i[rq] + 1 < RetryCeiling THEN "send" ELSE "log"]
    /\ UNCHANGED <<storeVars, editVars, handlerVars, renderVars, cursor,
                   body, atts, htm>>

\* Line 340, after the loop, however it ended: log.Printf("... 성공").
LogSuccess(rq, j) ==
    /\ At(rq, j, "log")
    /\ rec' = Logged(rq, j, "success")
    /\ NextRecipient(rq, j)
    /\ UNCHANGED <<storeVars, editVars, handlerVars>>

(***************************** OIDC session, AuthMiddleware ****************)

\* main(): the patterns registered behind oidcSvc.AuthMiddleware.
ApiRoutes ==
    {"/api/templates", "/api/templates/", "/api/templates/preview/", "/api/users",
     "/api/email", "/api/me", "/api/images/upload", "/api/images/"}

\* The routes whose handlers are followed step by step; the handlers of the
\* others answer and change nothing of the state kept here.
SteppedRoutes == {"/api/templates/", "/api/email"}

\* s.Store.Get(r, "oidc-session") of the cookie store: an error for a cookie
\* that does not verify, and the values of the cookie, empty for a new session.
SessionError(cookie) == cookie.sig = "bad"
SessionValues(cookie) ==
    IF cookie.sig = "ok"
    THEN [state |-> cookie.state, id_token |-> cookie.id_token]
    ELSE [state |-> "", id_token |-> ""]

\* session.Save(r, w): the values signed with SESSION_KEY into a cookie.
Signed(values) == [sig |-> "ok", state |-> values.state, id_token |-> values.id_token]

\* The cookies a client can send.
Cookies == issued \cup {NoCookie, ForgedCookie}

\* An answer: http.Redirect or http.Error / a plain status, and the cookie
\* session.Save set on it, if any.
Found(location) == [status |-> 302, location |-> location, set |-> NoCookie]
Status(code) == [status |-> code, location |-> "", set |-> NoCookie]
SetCookie(answer, cookie) == [answer EXCEPT !.set = cookie]

\* Handlers of the stepped routes that have been entered so far.
Started == edits + Cardinality({rq \in Requests : hpc[rq] # "idle"})

\* The middleware has called next.ServeHTTP and the handler has not begun.
Admitted == areq.admitted /\ areq.seq = Started /\ aresp = NoAnswer

\* The handler of the route can take a request.
CanServe(route) ==
    /\ route = "/api/templates/" => (epc = "idle" /\ edits < MaxEdits)
    /\ route = "/api/email" => hpc[1] = "idle"

\* The request: its route and cookie, and for a callback the state and code
\* of its query and whether the provider will accept the code and vouch for
\* the ID token.
Serving(route, cookie, pass) ==
    [route |-> route, cookie |-> cookie, seq |-> Started, admitted |-> pass,
     state |-> "", code |-> "", idp |-> FALSE]

\* A middleware that calls next for every request.
AuthMiddlewareOpen(route, cookie) ==
    /\ ~Admitted
    /\ CanServe(route)
    /\ areq' = Serving(route, cookie, TRUE)
    /\ aresp' = NoAnswer
    /\ UNCHANGED <<issued, storeVars, editVars, hpc, req, response, renderVars, loopVars>>

\* AuthMiddleware: err != nil || session.Values["id_token"] == nil redirects
\* to /login; otherwise next.ServeHTTP(w, r).
AuthMiddleware(route, cookie) ==
    /\ ~Admitted
    /\ CanServe(route)
    /\ LET pass == ~SessionError(cookie) /\ SessionValues(cookie).id_token # ""
       IN /\ areq' = Serving(route, cookie, pass)
          /\ aresp' = IF pass THEN NoAnswer ELSE Found("/login")
    /\ UNCHANGED <<issued, storeVars, editVars, hpc, req, response, renderVars, loopVars>>

\* next.ServeHTTP for /api/templates/{name}
ServeTemplate(method, name, content) ==
    /\ Admitted /\ areq.route = "/api/templates/"
    /\ TemplateHandler(method, name, content)

\* next.ServeHTTP for /api/email
ServeEmail(t, subj, recips) ==
    /\ Admitted /\ areq.route = "/api/email"
    /\ EmailHandlerAccept(1, t, subj, recips)

\* next.ServeHTTP for the other routes.
ServeOther ==
    /\ Admitted /\ areq.route \in ApiRoutes \ SteppedRoutes
    /\ aresp' = Status(200)
    /\ UNCHANGED <<issued, areq, storeVars, editVars, hpc, req, response,
                   renderVars, loopVars>>

\* generateState: a random value; and the state parameters a callback
\* request can carry.
OidcStates == {"s1"}
QueryStates == {"s1", "s2"}

\* LoginHandler: the state is saved in the session and the browser is sent
\* to the provider.
LoginHandler(cookie, state) ==
    /\ ~Admitted
    /\ areq' = Serving("/login", cookie, FALSE)
    /\ IF SessionError(cookie)
       THEN /\ aresp' = Status(500)
            /\ UNCHANGED issued
       ELSE /\ issued' = issued \cup {Signed([SessionValues(cookie) EXCEPT !.state = state])}
            /\ aresp' = SetCookie(Found("provider"),
                                  Signed([SessionValues(cookie) EXCEPT !.state = state]))
    /\ UNCHANGED <<storeVars, editVars, hpc, req, response, renderVars, loopVars>>

\* A callback that does not compare the state of the query with the session.
CallbackHandlerAnyState(cookie, queryState, code, idpOk) ==
    /\ ~Admitted
    /\ areq' = [Serving("/login/callback", cookie, FALSE)
                  EXCEPT !.state = queryState, !.code = code, !.idp = idpOk]
    /\ IF \/ SessionError(cookie)
          \/ SessionValues(cookie).state = ""
          \/ code = ""
       THEN /\ aresp' = Status(400)
            /\ UNCHANGED issued
       ELSE IF ~idpOk
            THEN /\ aresp' = Status(500)
                 /\ UNCHANGED issued
            ELSE /\ issued' = issued \cup
                      {Signed([SessionValues(cookie) EXCEPT !.state = "", !.id_token = "tok"])}
                 /\ aresp' = SetCookie(Found("/"),
                      Signed([SessionValues(cookie) EXCEPT !.state = "", !.id_token = "tok"]))
    /\ UNCHANGED <<storeVars, editVars, hpc, req, response, renderVars, loopVars>>

\* CallbackHandler: the state of the query must be the one of the session;
\* the code is exchanged and the ID token verified by the provider (idpOk);
\* then id_token is saved in the session and the state deleted.
CallbackHandler(cookie, queryState, code, idpOk) ==
    /\ ~Admitted
    /\ areq' = [Serving("/login/callback", cookie, FALSE)
                  EXCEPT !.state = queryState, !.code = code, !.idp = idpOk]
    /\ IF \/ SessionError(cookie)
          \/ SessionValues(cookie).state = ""
          \/ queryState # SessionValues(cookie).state
          \/ code = ""
       THEN /\ aresp' = Status(400)
            /\ UNCHANGED issued
       ELSE IF ~idpOk
            THEN /\ aresp' = Status(500)
                 /\ UNCHANGED issued
            ELSE /\ issued' = issued \cup
                      {Signed([SessionValues(cookie) EXCEPT !.state = "", !.id_token = "tok"])}
                 /\ aresp' = SetCookie(Found("/"),
                      Signed([SessionValues(cookie) EXCEPT !.state = "", !.id_token = "tok"]))
    /\ UNCHANGED <<storeVars, editVars, hpc, req, response, renderVars, loopVars>>

\* LogoutHandler: the cookie is set again with MaxAge -1, which makes the
\* browser drop it; the cookie signed before stays a signed cookie.
LogoutHandler(cookie) ==
    /\ ~Admitted
    /\ areq' = Serving("/logout", cookie, FALSE)
    /\ aresp' = IF SessionError(cookie) THEN Status(500) ELSE Status(200)
    /\ UNCHANGED <<issued, storeVars, editVars, hpc, req, response, renderVars, loopVars>>

(***************************** names and file paths ************************)

\* A path is the sequence of its elements between the separators; an
\* element is a name and the suffix a handler has added to it.
Seg(s) == [name |-> s, ext |-> ""]

\* tmplName + ".html": the suffix goes on the last element.
WithHtml(segs) == [segs EXCEPT ![Len(segs)] = [@ EXCEPT !.ext = ".html"]]

\* path.Clean / filepath.Clean, element by element: "" and "." are dropped,
\* ".." removes the element before it; at the start of a relative path ".."
\* stays, at the root it is dropped.
RECURSIVE CleanInto(_, _, _)
CleanInto(out, segs, rooted) ==
    IF segs = <<>> THEN out
    ELSE IF Head(segs) \in {Seg(""), Seg(".")} THEN CleanInto(out, Tail(segs), rooted)
    ELSE IF Head(segs) # Seg("..") THEN CleanInto(Append(out, Head(segs)), Tail(segs), rooted)
    ELSE IF out # <<>> /\ out[Len(out)] # Seg("..")
         THEN CleanInto(SubSeq(out, 1, Len(out) - 1), Tail(segs), rooted)
         ELSE IF rooted THEN CleanInto(out, Tail(segs), rooted)
              ELSE CleanInto(Append(out, Head(segs)), Tail(segs), rooted)

\* path.Clean of a relative path; the empty result is ".".
Clean(segs) ==
    IF CleanInto(<<>>, segs, FALSE) = <<>> THEN << Seg(".") >>
    ELSE CleanInto(<<>>, segs, FALSE)

\* filepath.Join(dir, rel) for an absolute dir: Clean(dir + "/" + rel).
Join(dir, rel) == CleanInto(<<>>, dir \o rel, TRUE)

\* filepath.Base, as mime/multipart applies it to the filename of a part.
Base(segs) == IF segs = <<>> THEN << Seg(".") >> ELSE << segs[Len(segs)] >>

\* h.TemplateManager.BaseDir() and h.ImageDir, and the files there are.
BaseDir == << Seg("srv"), Seg("templates") >>
ImageDir == << Seg("srv"), Seg("images") >>
ExistingFiles ==
    { BaseDir \o WithHtml(<< Seg("promo") >>),
      BaseDir \o WithHtml(<< Seg("default") >>),
      BaseDir \o WithHtml(<< Seg("sub"), Seg("promo") >>),
      << Seg("srv") >> \o WithHtml(<< Seg("secret") >>),
      ImageDir \o << Seg("logo.png") >>,
      ImageDir \o << Seg("sub"), Seg("logo.png") >>,
      << Seg("srv"), Seg("secret") >> }

Result(status, op, path) == [status |-> status, op |-> op, path |-> path]

\* os.ReadFile, http.ServeFile's open, os.Remove: the call and its outcome.
ReadFile(path, missing) ==
    IF path \in ExistingFiles THEN Result(200, "read", path)
    ELSE Result(missing, "read", path)
Remove(path) ==
    IF path \in ExistingFiles THEN Result(200, "delete", path)
    ELSE Result(500, "delete", path)

\* TemplateHandler, lines 88-163: the name checks and the file operation of
\* each method; the content posted parses.
TemplateFile(method, name, content) ==
    IF Clean(name) = << Seg(".") >> THEN Result(400, "none", <<>>)
    ELSE IF Len(Clean(name)) > 1 THEN Result(400, "none", <<>>)
    ELSE IF method = "GET" THEN ReadFile(Join(BaseDir, WithHtml(Clean(name))), 404)
    ELSE IF method = "POST"
         THEN (IF content = "" THEN Result(400, "none", <<>>)
               ELSE Result(200, "write", Join(BaseDir, WithHtml(Clean(name)))))
         ELSE (IF Clean(name) = << Seg("default") >> THEN Result(400, "none", <<>>)
               ELSE Remove(Join(BaseDir, WithHtml(Clean(name)))))

\* PreviewTemplateHandler, lines 179-224: the name check, and os.ReadFile of
\* the stored template when no content is posted.
PreviewFile(name, content) ==
    IF Clean(name) = << Seg(".") >> THEN Result(400, "none", <<>>)
    ELSE IF content # "" THEN Result(200, "none", <<>>)
    ELSE ReadFile(Join(BaseDir, WithHtml(Clean(name))), 404)

\* ImageServeHandler, lines 412-418; http.ServeFile answers 400 without
\* opening anything when an element of r.URL.Path is "..".
ImageServeFile(name) ==
    IF Clean(name) = << Seg(".") >> THEN Result(400, "none", <<>>)
    ELSE IF \E k \in DOMAIN name : name[k] = Seg("..") THEN Result(400, "none", <<>>)
    ELSE ReadFile(Join(ImageDir, Clean(name)), 404)

\* ImageDeleteHandler, lines 451-460.
ImageDeleteFile(name) ==
    IF Clean(name) = << Seg(".") >> THEN Result(400, "none", <<>>)
    ELSE Remove(Join(ImageDir, Clean(name)))

\* ImageUploadHandler, lines 388-399: handler.Filename is the Base of the
\* filename of the part, so it holds no "/"; os.Create of a directory ("."
\* and "..") fails before anything is written.
ImageUploadFile(filename) ==
    IF Base(filename) = << Seg("upload") >> THEN Result(400, "none", <<>>)
    ELSE IF Base(filename) \in {<< Seg(".") >>, << Seg("..") >>}
         THEN Result(500, "none", <<>>)
         ELSE Result(200, "write", Join(ImageDir, Base(filename)))

\* The handler of the endpoint answers the request.
Respond(endpoint, result) ==
    /\ preq.endpoint = endpoint
    /\ pres = NoResult
    /\ pres' = result
    /\ UNCHANGED <<storeVars, epc, ereq, edits, eresp, before, dpc, dreq, dresp,
                   preq, handlerVars, renderVars, loopVars>>

TemplateHandlerFile ==
    \E method \in {"GET", "POST", "DELETE"} :
        Respond("template " \o method, TemplateFile(method, preq.name, preq.content))
PreviewTemplateHandlerFile == Respond("preview", PreviewFile(preq.name, preq.content))
ImageServeHandler == Respond("image GET", ImageServeFile(preq.name))
ImageDeleteHandler == Respond("image DELETE", ImageDeleteFile(preq.name))
ImageUploadHandler == Respond("image upload", ImageUploadFile(preq.name))

(***************************** specifications ******************************)

\* RenderTemplate as the dispatch goroutine calls it for recipient j.
RenderStep(rq, j) ==
    \/ RenderNotFound(rq, j)
    \/ RenderBind(rq, j)
    \/ ExecField(rq, j)
    \/ ExecProperty(rq, j)
    \/ ExecImageMissing(rq, j)
    \/ ExecImageRead(rq, j)
    \/ ExecImageAppend(rq, j)
    \/ ExecFail(rq, j)
    \/ RenderFailed(rq, j)
    \/ RenderReturn(rq, j)

InlineStep(rq, j) ==
    \/ PremailerFail(rq, j)
    \/ PremailerOk(rq, j)
    \/ TransformOk(rq, j)
    \/ TransformFail(rq, j)

\* One step of the goroutine for recipient j.
DispatchStep(rq, j) ==
    \/ RenderStep(rq, j)
    \/ InlineStep(rq, j)
    \/ SendEmailOk(rq, j)
    \/ SendEmailFail(rq, j)
    \/ BackoffSleep(rq, j)
    \/ LogSuccess(rq, j)

Positions == 1..MaxRecipients

\* One send request against the templates loaded at start; the transport
\* may fail at every call.
SendInputsTemplate == {"default", "promo", "faulty", "ghost", ""}
SendInputsSubject == {"notice", ""}

Next ==
    \/ \E t \in SendInputsTemplate, subj \in SendInputsSubject, recips \in RecipientLists :
          \/ EmailHandlerReject(1, t, subj, recips)
          \/ EmailHandlerAccept(1, t, subj, recips)
    \/ EmailHandlerBadJSON(1)
    \/ EmailHandlerRespond(1)
    \/ \E j \in Positions : DispatchStep(1, j)

Spec == Init /\ [][Next]_vars

\* The goroutine of a request runs until it ends: the Go scheduler does not
\* starve it, and every SendEmail call and Sleep returns.
FairSpec == Spec /\ WF_vars(\E j \in Positions : DispatchStep(1, j))

\* One save or delete request of the template editor, step by step.
EditorStep ==
    \/ PostWriteFile
    \/ PostWriteFileFail
    \/ PostParse
    \/ PostStore
    \/ DeleteRemoveFile
    \/ DeleteRemoveFileFail
    \/ DeleteUnload

\* Two send requests of the template "promo" while the editor saves and
\* deletes it; the SMTP server accepts every message.
EditInputsContent == {"v1", "vbad", ""}

RenderNext ==
    \/ \E rq \in Requests :
          EmailHandlerAccept(rq, "promo", "notice", RecipientListOf(rq))
    \/ \E rq \in Requests : EmailHandlerRespond(rq)
    \/ \E rq \in Requests, j \in Positions :
          \/ RenderStep(rq, j)
          \/ PremailerOk(rq, j)
          \/ TransformOk(rq, j)
          \/ SendEmailOk(rq, j)
          \/ LogSuccess(rq, j)
    \/ \E m \in {"POST", "DELETE"}, c \in EditInputsContent :
          TemplateHandler(m, "promo", c)
    \/ EditorStep

SpecRender == Init /\ [][RenderNext]_vars

\* The template API against the store, with one send request of one
\* recipient rendering what the store holds; "broken" is malformed template
\* source.
StoreInputsName == {"default", "promo"}
StoreInputsContent == {"v1", "vbad", "broken", ""}

StoreNext ==
    \/ \E n \in StoreInputsName, c \in StoreInputsContent :
          \/ TemplateHandler("POST", n, c)
          \/ \E inline \in InlineOutcomes : PreviewTemplateHandler(n, c, inline)
    \/ \E n \in StoreInputsName : TemplateHandler("DELETE", n, "")
    \/ EditorStep
    \/ \E t \in StoreInputsName :
          EmailHandlerAccept(1, t, "notice", RecipientListOf(1))
    \/ EmailHandlerRespond(1)
    \/ \E j \in Positions :
          \/ RenderStep(1, j)
          \/ PremailerOk(1, j)
          \/ TransformOk(1, j)
          \/ SendEmailOk(1, j)
          \/ LogSuccess(1, j)

SpecStore == Init /\ [][StoreNext]_vars

\* One send request for each template of the directory, the SMTP server
\* accepting every message: what the directives of a render produce.
DirectiveInputsTemplate == TemplateNames \cup {"ghost"}

DirectiveNext ==
    \/ \E t \in DirectiveInputsTemplate, recips \in RecipientLists :
          EmailHandlerAccept(1, t, "notice", recips)
    \/ EmailHandlerRespond(1)
    \/ \E j \in Positions :
          \/ RenderStep(1, j)
          \/ PremailerOk(1, j)
          \/ TransformOk(1, j)
          \/ SendEmailOk(1, j)
          \/ LogSuccess(1, j)

SpecDirectives == Init /\ [][DirectiveNext]_vars

\* A save request and a delete request for the same template at the same
\* time; the content saved parses.
RaceInputsName == {"promo", "props"}
RaceInputsContent == {"v1", "v3"}

RaceNext ==
    \/ \E n \in RaceInputsName, c \in RaceInputsContent : TemplateHandler("POST", n, c)
    \/ PostWriteFile
    \/ PostParse
    \/ PostStore
    \/ \E n \in RaceInputsName : RivalDelete(n)
    \/ RivalRemoveFile
    \/ RivalUnload

SpecRace == Init /\ [][RaceNext]_vars

\* One request to a template or image endpoint, for each name a URL can
\* carry: plain, with a separator, with ".." elements, empty.
PathNames ==
    { << Seg("promo") >>, << Seg("default") >>, << Seg("logo.png") >>,
      << Seg("sub"), Seg("promo") >>, << Seg("sub"), Seg("logo.png") >>,
      << Seg(".."), Seg("secret") >>, << Seg("sub"), Seg(".."), Seg("promo") >>,
      << Seg("..") >>, << Seg(".") >>, << Seg("upload") >>, <<>> }
PathEndpoints ==
    {"template GET", "template POST", "template DELETE", "preview",
     "image GET", "image DELETE", "image upload"}
PathRequests ==
    { [endpoint |-> e, name |-> n, content |-> c] :
         e \in PathEndpoints, n \in PathNames, c \in {"", "v1"} }

InitPaths == InitBase /\ preq \in PathRequests

PathNext ==
    \/ TemplateHandlerFile
    \/ PreviewTemplateHandlerFile
    \/ ImageServeHandler
    \/ ImageDeleteHandler
    \/ ImageUploadHandler

SpecPaths == InitPaths /\ [][PathNext]_vars

\* Two send requests at once, each for one recipient and any template of
\* the directory, which nobody edits: the renders share the template objects.
SharedNext ==
    \/ \E rq \in Requests, t \in DirectiveInputsTemplate :
          EmailHandlerAccept(rq, t, "notice", RecipientListOf(rq))
    \/ \E rq \in Requests : EmailHandlerRespond(rq)
    \/ \E rq \in Requests, j \in Positions :
          \/ RenderStep(rq, j)
          \/ PremailerOk(rq, j)
          \/ TransformOk(rq, j)
          \/ SendEmailOk(rq, j)
          \/ LogSuccess(rq, j)

SpecShared == Init /\ [][SharedNext]_vars

\* The mux: every request goes through the handler registered for its
\* route.  The goroutine an admitted send request starts is followed in the
\* other specifications; here it exists (pc = "render") and is not stepped.
AuthInputsContent == {"v1"}

AuthNext ==
    \/ \E route \in ApiRoutes, cookie \in Cookies : AuthMiddleware(route, cookie)
    \/ \E c \in AuthInputsContent : ServeTemplate("POST", "promo", c)
    \/ ServeTemplate("DELETE", "promo", "")
    \/ ServeEmail("promo", "notice", RecipientListOf(1))
    \/ ServeOther
    \/ \E cookie \in Cookies, state \in OidcStates : LoginHandler(cookie, state)
    \/ \E cookie \in Cookies, queryState \in QueryStates, code \in {"code", ""},
          idpOk \in BOOLEAN : CallbackHandler(cookie, queryState, code, idpOk)
    \/ \E cookie \in Cookies : LogoutHandler(cookie)
    \/ EditorStep
    \/ EmailHandlerRespond(1)

SpecAuth == Init /\ [][AuthNext]_vars

(***************************** properties **********************************)

\* The goroutine of rq has left recipient j behind.
Finished(rq, j) == pc[rq] # "idle" /\ cursor[rq] > j

\* RenderTemplate has returned to the loop body for recipient cursor[rq].
Rendered(rq) == pc[rq] \in {"premailer", "transform", "send", "sleep", "log"}

\* What executing node n yields for the data of render o alone.
NodeOut(n, o) ==
    IF n.op = "field" THEN Frag("field", <<Data(o).name>>, <<>>, "", "", "")
    ELSE IF n.op = "property"
         THEN Frag("property", PropertyOf(o, n.arg), <<>>, "", "", "")
         ELSE ImageFrag(n)

Expected(src, o) == [k \in 1..Len(Sources[src]) |-> NodeOut(Sources[src][k], o)]

\* The kinds of the fragments of an output, and of a source executed whole.
Shape(frags) == [k \in 1..Len(frags) |-> frags[k].tag]
NodeTag(n) == IF IsImageOp(n) THEN ImageFrag(n).tag ELSE n.op
ShapeOfSource(src) == [k \in 1..Len(Sources[src]) |-> NodeTag(Sources[src][k])]

IsPrefix(a, b) == Len(a) <= Len(b) /\ a = SubSeq(b, 1, Len(a))

\* C1: every RenderTemplate call returns exactly the attachments of the
\* directives it evaluated itself, and its property directives read its own
\* data only, whatever other renders run at the same time.
C1_RenderIsolation ==
    \A rq \in Requests :
        Rendered(rq) =>
            /\ atts[rq] = own[rq]
            /\ body[rq] = Expected(TemplateOf(rq).src, <<rq, cursor[rq]>>)

\* C2: a render executes one template version from its first node to its
\* last: the one it read from the Store, whatever LoadTemplate and
\* DeleteTemplate do meanwhile.
C2_OneVersion ==
    \A rq \in Requests :
        /\ pc[rq] \in {"exec", "append"} =>
              IsPrefix(Shape(buf[rq]), ShapeOfSource(TemplateOf(rq).src))
        /\ Rendered(rq) => Shape(body[rq]) = ShapeOfSource(TemplateOf(rq).src)

\* A render that returned the version stored when it began, entire, although
\* the Store holds another version, or none, by now.
C2_Witness ==
    \E rq \in Requests :
        /\ pc[rq] = "premailer"
        /\ Lookup(req[rq].template) # tmplPtr[rq]
        /\ Shape(body[rq]) = ShapeOfSource("v2")

\* C3: a recipient whose SendEmail calls all fail gets exactly 10 of them,
\* and no recipient ever gets more.
C3_RetryCeiling ==
    \A rq \in Requests : \A j \in DOMAIN rec[rq] :
        /\ rec[rq][j].calls <= 10
        /\ (Finished(rq, j) /\ rec[rq][j].oks = 0
               /\ rec[rq][j].log \cap {"renderFail", "premailerFail"} = {})
             => rec[rq][j].calls = 10

C3_Witness ==
    \E j \in DOMAIN rec[1] :
        Finished(1, j) /\ rec[1][j].calls = 10 /\ rec[1][j].oks = 0

\* C4: the success log of a recipient is written only if a SendEmail call for
\* that recipient returned without error.
C4_SuccessOnlyWhenSent ==
    \A rq \in Requests : \A j \in DOMAIN rec[rq] :
        "success" \in rec[rq][j].log => rec[rq][j].oks >= 1

\* C5: at most one SendEmail call per recipient succeeds, and once one has,
\* no step makes another SendEmail call for that recipient.
C5_NoSendAfterSuccess ==
    [][\A rq \in Requests : \A j \in DOMAIN rec[rq] :
          /\ rec[rq][j].oks <= 1
          /\ rec[rq][j].oks >= 1 => rec'[rq][j].calls = rec[rq][j].calls]_vars

\* A recipient delivered at a retry, then left behind.
C5_Witness ==
    \E j \in DOMAIN rec[1] :
        Finished(1, j) /\ rec[1][j].oks = 1 /\ rec[1][j].calls >= 2

\* C6: a recipient whose CSS inlining failed, at the construction or at the
\* Transform step, gets no SendEmail call.
C6_InlineFailureSkipsSend ==
    \A rq \in Requests : \A j \in DOMAIN rec[rq] :
        rec[rq][j].log \cap {"premailerFail", "transformFail"} # {}
            => rec[rq][j].calls = 0

\* C7: a recipient whose render failed was rendered once, gets no SendEmail
\* call, and the goroutine has gone on to the next recipient, if there is one.
C7_RenderFailureSkips ==
    \A rq \in Requests : \A j \in DOMAIN rec[rq] :
        /\ rec[rq][j].renders <= 1
        /\ "renderFail" \in rec[rq][j].log =>
              /\ rec[rq][j].renders = 1
              /\ rec[rq][j].calls = 0
              /\ Finished(rq, j)
              /\ (cursor[rq] = j + 1 /\ j < Len(req[rq].recipient))
                    => pc[rq] # "end"

\* The render of the first recipient failed and the second was rendered.
C7_Witness ==
    /\ Len(rec[1]) >= 2
    /\ rec[1][1].log = {"renderFail"}
    /\ rec[1][2].renders = 1

\* Recipient j of request rq was sent to, or was skipped for a failure of
\* its own render or inlining.
AttemptedOrSkipped(rq, j) ==
    /\ j \in DOMAIN rec[rq]
    /\ \/ rec[rq][j].calls >= 1
       \/ rec[rq][j].log \cap {"renderFail", "premailerFail", "transformFail"} # {}

\* C8: every recipient of an accepted request whose own render and inlining
\* succeed is eventually sent to, whatever happens to the other recipients.
C8_EveryRecipientAttempted ==
    \A j \in Positions :
        (pc[1] # "idle" /\ j <= Len(req[1].recipient)) ~> AttemptedOrSkipped(1, j)

\* The first recipient used up its 10 attempts and the second was sent to.
C8_Witness ==
    /\ Len(rec[1]) >= 2
    /\ rec[1][1].calls = 10 /\ rec[1][1].oks = 0
    /\ rec[1][2].calls >= 1

\* Recipient k is inside its retry loop after a failed attempt.
InBackoff(rq, k) ==
    /\ cursor[rq] = k
    /\ pc[rq] \in {"send", "sleep"}
    /\ rec[rq][k].calls >= 1

\* Recipient j has not been started.
Pending(rq, j) == j \in DOMAIN rec[rq] /\ rec[rq][j].renders = 0

\* C9: the deliveries of a request run concurrently: while a recipient is in
\* its retry/backoff loop, every other recipient that has not been started
\* can take its next step.
C9_ConcurrentDelivery ==
    \A rq \in Requests : \A k \in DOMAIN rec[rq], j \in DOMAIN rec[rq] :
        (k # j /\ InBackoff(rq, k) /\ Pending(rq, j)) => ENABLED DispatchStep(rq, j)

\* C10: the handler can write its response whenever it has started the
\* goroutine, wherever that goroutine is, and the response of an accepted
\* request is the number of its recipients whatever was sent.
C10_ResponseNotWaiting ==
    \A rq \in Requests :
        /\ hpc[rq] = "respond" => ENABLED EmailHandlerRespond(rq)
        /\ (hpc[rq] = "done" /\ response[rq].status = 200)
              => response[rq].count = Len(req[rq].recipient)

\* The response is written and no recipient has been started.
C10_Witness ==
    /\ hpc[1] = "done" /\ response[1].status = 200
    /\ pc[1] = "render" /\ cursor[1] = 1
    /\ \A j \in DOMAIN rec[1] : rec[1][j] = NoRec

\* reqData misses a required field.
MissingField(r) == r.template = "" \/ r.subject = "" \/ Len(r.recipient) = 0

\* C11: a request whose template name, subject or recipient list is empty is
\* answered 400 and no goroutine, render or send is started for it; every
\* other request is answered with the number of its recipients.
C11_RejectOrCount ==
    \A rq \in Requests :
        /\ MissingField(req[rq]) =>
              /\ pc[rq] = "idle" /\ rec[rq] = <<>> /\ hpc[rq] # "respond"
              /\ hpc[rq] = "done" => response[rq].status = 400
        /\ (~MissingField(req[rq]) /\ hpc[rq] = "done") =>
              /\ response[rq].status = 200
              /\ response[rq].count = Len(req[rq].recipient)

\* A request with a template and recipients but no subject was answered 400.
C11_Witness ==
    /\ hpc[1] = "done" /\ response[1].status = 400
    /\ req[1].template # "" /\ req[1].subject = "" /\ Len(req[1].recipient) > 0
    /\ pc[1] = "idle"

\* The editor's request has been answered.
Answered(method) == epc = "idle" /\ edits > 0 /\ ereq.method = method

\* The save request was answered 500 because LoadTemplate returned an error.
ParseRejected == Answered("POST") /\ eresp = Answer(500, "cache")

\* C12: a LoadTemplate call that fails to parse returns an error and leaves
\* the Store as it was: the entry of the name is the object it was before,
\* with the source it had, still listed, and the one a render beginning now
\* would execute.
C12_FailedLoadKeepsEntry ==
    /\ ParseRejected =>
          /\ templates[ereq.name] = before.tmpl
          /\ before.tmpl # NoTmpl =>
                /\ ereq.name \in ListTemplates
                /\ Parses(objs[before.tmpl].src)
                /\ objs[before.tmpl].src # ereq.content
    /\ (epc = "parse" /\ ~Parses(files[ereq.name])) =>
          templates[ereq.name] = before.tmpl

\* A save of malformed source over a loaded template was answered 500, and a
\* render of that name is executing the template loaded before.
C12_Witness ==
    /\ ParseRejected
    /\ before.tmpl # NoTmpl
    /\ req[1].template = ereq.name
    /\ pc[1] = "exec" /\ tmplPtr[1] = before.tmpl

\* C13: a POST of non-empty content that fails to parse is answered with an
\* error and replaces nothing: the Store entry and the source GET returns
\* are those from before the request.
C13_FailedSaveReplacesNothing ==
    ParseRejected =>
        /\ templates[ereq.name] = before.tmpl
        /\ GetTemplate(ereq.name) = before.file

\* C14: a POST with empty content is answered 400 and leaves the Store and
\* the template files as they are.
C14_EmptySaveChangesNothing ==
    [][(edits' # edits /\ ereq'.method = "POST" /\ ereq'.content = "")
          => (eresp'.status = 400 /\ epc' = "idle" /\ UNCHANGED storeVars)]_vars

\* An empty save was answered 400 and nothing of the name has changed.
C14_Witness ==
    /\ Answered("POST") /\ ereq.content = "" /\ eresp.status = 400
    /\ templates[ereq.name] = before.tmpl
    /\ files[ereq.name] = before.file

\* C15: DELETE /api/templates/default is answered 400 at once, and whatever
\* saves, deletes and previews are made, "default" stays in the Store and
\* in the list.
C15_DefaultNeverRemoved ==
    /\ "default" \in ListTemplates
    /\ Lookup("default") # NoTmpl
    /\ (edits > 0 /\ ereq.method = "DELETE" /\ ereq.name = "default") =>
          /\ epc = "idle"
          /\ eresp.status = 400

\* The second request of the editor, a DELETE of "default", was answered 400.
C15_Witness ==
    /\ Answered("DELETE") /\ ereq.name = "default" /\ eresp.status = 400
    /\ edits = 2

\* The nodes of the template the render of rq executed.
NodesOf(rq) == Sources[TemplateOf(rq).src]

\* The attachments of a list a cid: reference to the name cid resolves to.
Carriers(list, cid) == {a \in DOMAIN list : list[a].header = ContentIdHeader(cid)}

\* C16: in the attachments one RenderTemplate call returns, every content
\* identifier is carried by one attachment only, and every cid: reference of
\* the returned HTML names exactly one attachment of the list.
C16_OneAttachmentPerContentId ==
    Rendered(1) =>
        /\ \A a \in DOMAIN atts[1] : Cardinality(Carriers(atts[1], atts[1][a].filename)) = 1
        /\ \A k \in DOMAIN body[1] : \A c \in DOMAIN body[1][k].cid :
              Cardinality(Carriers(atts[1], body[1][k].cid[c])) = 1

\* C17: the same image reference with the same size resolves, in two renders
\* for different recipients and requests, to the same markup with the same
\* content identifier, and the Content-ID header of every attachment is the
\* identifier the markup of its reference carries.
C17_SameResolution ==
    /\ \A r1 \in Requests, r2 \in Requests :
          (Rendered(r1) /\ Rendered(r2)) =>
              \A k1 \in DOMAIN body[r1], k2 \in DOMAIN body[r2] :
                  (IsImageOp(NodesOf(r1)[k1]) /\ NodesOf(r1)[k1] = NodesOf(r2)[k2])
                      => body[r1][k1] = body[r2][k2]
    /\ \A rq \in Requests :
          Rendered(rq) =>
              \A a \in DOMAIN atts[rq] :
                  /\ atts[rq][a].header = ContentIdHeader(atts[rq][a].filename)
                  /\ \E k \in DOMAIN body[rq] :
                        /\ NodesOf(rq)[k].arg = atts[rq][a].content
                        /\ body[rq][k].cid = << atts[rq][a].filename >>

\* Two requests, for different recipients, have each rendered an image of
\* the same template and one of them holds its attachment.
C17_Witness ==
    /\ Rendered(1) /\ Rendered(2)
    /\ TemplateOf(1).src = TemplateOf(2).src
    /\ Data(<<1, 1>>) # Data(<<2, 1>>)
    /\ \E k \in DOMAIN body[1] : body[1][k].cid # <<>> /\ body[2][k].cid # <<>>
    /\ atts[1] # <<>> \/ atts[2] # <<>>

\* The imageWithSize nodes of the executed template that found their image.
Sized(rq) ==
    {k \in DOMAIN body[rq] : body[rq][k].tag = "imgsize"}

\* C18: two imageWithSize calls on the same image whose (width, height)
\* pairs differ get two distinct content identifiers.
C18_DistinctSizesDistinctIds ==
    Rendered(1) =>
        \A k1 \in Sized(1), k2 \in Sized(1) :
            (/\ NodesOf(1)[k1].arg = NodesOf(1)[k2].arg
             /\ <<NodesOf(1)[k1].w, NodesOf(1)[k1].h>> # <<NodesOf(1)[k2].w, NodesOf(1)[k2].h>>)
                => body[1][k1].cid # body[1][k2].cid

\* Image directive k of the executed template names an image that is missing
\* or cannot be read.
Unavailable(rq, k) ==
    IsImageOp(NodesOf(rq)[k]) /\ NodesOf(rq)[k].arg \notin ReadableImages

HoldsIdToken(cookie) == cookie \in issued /\ cookie.id_token = "tok"

\* This step enters the handler of an /api/ route.
HandlerEntered ==
    \/ Started' > Started
    \/ aresp = NoAnswer /\ aresp' = Status(200) /\ areq' = areq

\* C20: the handler of an /api/ route is entered only for a request whose
\* session cookie holds an id_token; a request without one is answered with
\* a redirect to /login, no handler is entered for it, and the step that
\* answers it changes no template, no file and no send request.
C20_ApiOnlyWithIdToken ==
    [][/\ HandlerEntered =>
             (areq.route \in ApiRoutes /\ areq.admitted /\ HoldsIdToken(areq.cookie))
       /\ (areq'.route \in ApiRoutes /\ ~HoldsIdToken(areq'.cookie)) =>
             /\ aresp' = Found("/login")
             /\ ~areq'.admitted
       /\ (areq' # areq /\ areq'.route \in ApiRoutes /\ ~HoldsIdToken(areq'.cookie)) =>
             UNCHANGED <<issued, storeVars, editVars, hpc, req, response,
                         renderVars, loopVars>>]_vars

\* After a login has completed, a request to /api/email with the cookie of
\* an unfinished login (a state, no id_token) was redirected and no send
\* request exists.
C20_Witness ==
    /\ \E c \in issued : c.id_token = "tok"
    /\ areq.route = "/api/email"
    /\ areq.cookie.sig = "ok" /\ areq.cookie.id_token = ""
    /\ aresp = Found("/login")
    /\ hpc[1] = "idle" /\ pc[1] = "idle"

\* The SendEmail calls made so far for the recipients of request rq.
RECURSIVE SendCallsUpTo(_, _)
SendCallsUpTo(rq, j) ==
    IF j = 0 THEN 0 ELSE rec[rq][j].calls + SendCallsUpTo(rq, j - 1)

SendCalls(rq) == SendCallsUpTo(rq, Len(rec[rq]))

\* C26: the goroutine of an accepted request with N recipients makes at most
\* 10 * N SendEmail calls and then ends, every recipient in a terminal
\* state, given that each SendEmail call and each backoff returns.
C26_DeliveryTerminates ==
    /\ [](SendCalls(1) <= 10 * Len(rec[1]))
    /\ (pc[1] # "idle") ~>
          (pc[1] = "end" /\ \A j \in DOMAIN rec[1] : Finished(1, j))

\* The goroutine ended after 10 failed attempts for each of two recipients.
C26_Witness ==
    /\ pc[1] = "end"
    /\ Len(rec[1]) = 2
    /\ SendCalls(1) = 10 * 2
    /\ \A j \in DOMAIN rec[1] : rec[1][j].oks = 0

\* C27: no backoff precedes the first attempt for a recipient, a backoff
\* happens only between a failed attempt and the retry that follows it, and
\* a recipient that took k attempts went through exactly k - 1 backoffs.
C27_BackoffOnlyBetweenAttempts ==
    \A rq \in Requests : \A j \in DOMAIN rec[rq] :
        /\ rec[rq][j].calls = 0 => rec[rq][j].sleeps = 0
        /\ At(rq, j, "send") => rec[rq][j].sleeps = rec[rq][j].calls
        /\ (Finished(rq, j) /\ rec[rq][j].calls >= 1) =>
              rec[rq][j].sleeps = rec[rq][j].calls - 1

\* C22: a preview whose parsing, execution or CSS inlining fails is answered
\* with a 4xx/5xx status and the error message; the status is 200 only when
\* the rendered and inlined HTML has been produced.
C22_PreviewErrorStatus ==
    ereq.method = "PREVIEW" =>
        /\ eresp.msg = "inlined" => eresp.status = 200
        /\ eresp.msg # "inlined" => eresp.status \in 400..599

\* C23: a RenderTemplate call that fails, because the template is absent or
\* because execution fails, returns the empty HTML and no attachment with
\* its error, whatever output and attachments it had produced before.
C23_FailedRenderReturnsNothing ==
    \A rq \in Requests :
        pc[rq] = "failed" => body[rq] = <<>> /\ atts[rq] = <<>>

\* A render failed after it had written output and appended an attachment.
C23_Witness ==
    /\ pc[1] = "failed"
    /\ buf[1] # <<>>
    /\ attachments[1] # <<>>

\* The custom mapping of the recipient request rq is rendering for.
CustomOf(rq) == req[rq].recipient[cursor[rq]].custom

\* C25: a property directive yields custom[key] of the data the render was
\* given, and the empty string when the key is absent or the data has no
\* custom mapping; it never makes the render fail.
C25_PropertyOrEmpty ==
    /\ Rendered(1) =>
          \A k \in DOMAIN body[1] :
              NodesOf(1)[k].op = "property" =>
                  /\ body[1][k].tag = "property"
                  /\ body[1][k].val =
                        IF NodesOf(1)[k].arg \in DOMAIN CustomOf(1)
                        THEN << CustomOf(1)[NodesOf(1)[k].arg] >>
                        ELSE <<>>
    /\ \A j \in DOMAIN rec[1] :
          (/\ Lookup(req[1].template) # NoTmpl
           /\ \A k \in DOMAIN Sources[objs[Lookup(req[1].template)].src] :
                 Sources[objs[Lookup(req[1].template)].src][k].op = "property")
             => "renderFail" \notin rec[1][j].log

\* This step completes a LoadTemplate that succeeded / a DeleteTemplate.
LoadCompletes == epc = "store" /\ epc' # "store"
DeleteCompletes == epc = "unload" /\ epc' # "unload"

\* C24: ListTemplates returns exactly the names whose most recent successful
\* store operation was a load: the names loaded at start, plus the name of
\* every completed LoadTemplate, minus the name of every DeleteTemplate, and
\* nothing else changes it; and a RenderTemplate call fails with "not found"
\* for exactly the names that are not listed.
C24_ListIsLastLoaded ==
    /\ ListTemplates = TemplateNames
    /\ [][/\ ListTemplates' =
               IF LoadCompletes THEN ListTemplates \cup {ereq.name}
               ELSE IF DeleteCompletes THEN ListTemplates \ {ereq.name}
               ELSE ListTemplates
          /\ \A rq \in Requests :
               (pc[rq] = "render" /\ pc'[rq] # "render") =>
                   (pc'[rq] = "failed" <=> req[rq].template \notin ListTemplates)
         ]_vars

\* "promo" was deleted and a render of it failed, after which "default" was
\* loaded again and is listed.
C24_Witness ==
    /\ "promo" \notin ListTemplates
    /\ req[1] # NoReq /\ req[1].template = "promo"
    /\ \E j \in DOMAIN rec[1] : "renderFail" \in rec[1][j].log
    /\ ereq.method = "POST" /\ ereq.name = "default"
    /\ eresp = Answer(200, "updated")
    /\ "default" \in ListTemplates

\* The answer of this step sets a session cookie that holds an id_token
\* where the cookie of the request held none.
AcquiresIdToken ==
    /\ areq' # areq \/ aresp' # aresp
    /\ aresp'.set.id_token # ""
    /\ SessionValues(areq'.cookie).id_token = ""

\* This step is a callback that was answered with an error.
CallbackFailed ==
    /\ areq' # areq \/ aresp' # aresp
    /\ areq'.route = "/login/callback"
    /\ aresp'.status # 302

\* C30: a session gets its id_token only from a callback whose state
\* parameter is the non-empty state LoginHandler saved in that session, with
\* a non-empty code the provider exchanges for a verified ID token; the
\* successful callback removes the state from the session, so the session it
\* leaves cannot complete another callback; a failed callback sets no cookie
\* and leaves the session as it was, without id_token.
C30_IdTokenOnlyByCallback ==
    [][/\ AcquiresIdToken =>
             /\ areq'.route = "/login/callback"
             /\ areq'.cookie \in issued
             /\ areq'.cookie.state # ""
             /\ areq'.state = areq'.cookie.state
             /\ areq'.code # ""
             /\ areq'.idp
             /\ aresp'.set.state = ""
       /\ (aresp'.set.state # "" /\ aresp' # aresp) => areq'.route = "/login"
       /\ (areq'.route = "/login/callback" /\ SessionValues(areq'.cookie).state = ""
             /\ (areq' # areq \/ aresp' # aresp)) => aresp' = Status(400)
       /\ CallbackFailed => (aresp'.set = NoCookie /\ issued' = issued)
      ]_vars

\* A callback completed a login, and a second callback that presented the
\* cookie the first one had set, with the same state parameter, was refused.
C30_Witness ==
    /\ areq.route = "/login/callback"
    /\ areq.cookie \in issued
    /\ areq.cookie.id_token = "tok" /\ areq.cookie.state = ""
    /\ areq.state = "s1" /\ areq.code # "" /\ areq.idp
    /\ aresp = Status(400)

\* No template request is in flight.
Quiescent == epc = "idle" /\ dpc = "idle"

\* C29: once concurrent save and delete requests for a template name have
\* all completed, the name is in the store if and only if its file exists,
\* and the stored template was parsed from the content the file holds now.
C29_StoreMatchesDirectory ==
    Quiescent =>
        \A n \in TemplateNames :
            /\ Lookup(n) # NoTmpl <=> files[n] # "none"
            /\ Lookup(n) # NoTmpl => objs[Lookup(n)].src = files[n]

\* The base directory of the endpoint of the request, and the name its
\* handler works with.
BaseOf(r) == IF r.endpoint \in {"image GET", "image DELETE", "image upload"}
             THEN ImageDir ELSE BaseDir
NameOf(r) == IF r.endpoint = "image upload" THEN Base(r.name) ELSE Clean(r.name)

\* The path lies outside the directory.
Outside(dir, path) == ~IsPrefix(dir, path)

\* C21: a template or image endpoint rejects a name that contains a path
\* separator or resolves outside its base directory, and issues no file
\* read, write or delete for it.
C21_NoPathTraversal ==
    (/\ pres # NoResult
     /\ \/ Len(NameOf(preq)) > 1
        \/ Outside(BaseOf(preq), Join(BaseOf(preq), NameOf(preq))))
       => (pres.status \in 400..599 /\ pres.op = "none")

\* C31: a DELETE whose os.Remove fails, because the template has no file or
\* because the file cannot be removed, is answered with an error and leaves
\* the store as it was: the same names are listed, with the same templates.
C31_FailedDeleteKeepsStore ==
    [][(epc = "remove" /\ epc' = "idle") =>
           /\ eresp'.status \in 400..599
           /\ ListTemplates' = ListTemplates
           /\ templates' = templates
           /\ objs' = objs
           /\ files' = files]_vars

\* A template was deleted, and a second DELETE of the same name, whose file
\* is gone, was answered 500: the names listed are those listed before it.
C31_Witness ==
    /\ Answered("DELETE")
    /\ eresp = Answer(500, "remove")
    /\ edits = 2
    /\ files[ereq.name] = "none"
    /\ ereq.name \notin ListTemplates
    /\ before = [tmpl |-> NoTmpl, file |-> "none"]

\* This step is PreviewTemplateHandler answering a request.
PreviewAnswers ==
    /\ epc = "idle" /\ epc' = "idle" /\ edits' = edits
    /\ ereq'.method = "PREVIEW"
    /\ <<ereq, eresp, before>>' # <<ereq, eresp, before>>

\* C32: a preview changes neither the store nor a template file, with or
\* without posted content and whatever its outcome: what a send or a GET of
\* a template name finds after it is what it found before.
C32_PreviewChangesNothing ==
    [][PreviewAnswers =>
           /\ UNCHANGED <<templates, objs, files>>
           /\ \A n \in TemplateNames :
                 /\ Lookup(n)' = Lookup(n)
                 /\ GetTemplate(n)' = GetTemplate(n)]_vars

\* Unsaved content was previewed for "promo" with success, and a send of
\* "promo" rendered the stored version, which the file still holds.
C32_Witness ==
    /\ ereq = [method |-> "PREVIEW", name |-> "promo", content |-> "v1"]
    /\ eresp = Answer(200, "inlined")
    /\ files["promo"] = "v2"
    /\ before = [tmpl |-> Lookup("promo"), file |-> "v2"]
    /\ Rendered(1)
    /\ req[1].template = "promo"
    /\ Shape(body[1]) = ShapeOfSource("v2")

=============================================================================
